---- MODULE Spec2Model ----
(***************************************************************************)
(* Model of bin/MetricGrabber.py (pulse_for_aws_cloudwatch).               *)
(*                                                                         *)
(* One process: MetricGrabber.__init__ resolves the region and the time    *)
(* window from sys.argv and initialises the self-imposed rate limiter;     *)
(* connect() then runs either grabMetrics (paginated list_metrics, with a  *)
(* rate-limited get_metric_statistics per selected descriptor) or          *)
(* grabAlarmHistory (paginated describe_alarm_history).                    *)
(*                                                                         *)
(* Time is a clock `now` counted in ticks of 1/TicksPerSecond second.  It  *)
(* advances only while the thread is blocked: in a remote call (latency)   *)
(* or in time.sleep.  Strings that the code inspects character by          *)
(* character (CLI tokens, metric names) are sequences of symbols.          *)
(*                                                                         *)
(* The clock never runs backwards, every remote call returns (an error of  *)
(* the transport would end the run where it is raised), and connect() is   *)
(* called once on the object.  The variables marked history record what    *)
(* has happened and are read by no action.                                 *)
(***************************************************************************)
EXTENDS Integers, Sequences, FiniteSets, TLC

VARIABLES
    sys_argv,            \* sys.argv, script name first
    pc,                  \* position of the single thread
    now,                 \* the clock, in ticks
    region,              \* self.region
    startTime,           \* self.startTime (ticks)
    endTime,             \* self.endTime (ticks)
    totalRequests,       \* self.totalRequests
    requestDateCounter,  \* self.requestDateCounter (ticks)
    cloudwatch,          \* self.cloudwatch: <<>> or <<region connected to>>
    namespace,           \* self.namespace
    queryType,           \* self.queryType (<<>> when not given)
    attribute,           \* self.attribute
    metrics,             \* the page held by `metrics` / `alarms`
    idx,                 \* position of the for loop in the page
    i,                   \* the Metric the for loop holds
    instanceId,          \* local instanceId: <<>> for None, else <<value>>
    request,             \* arguments of the last get_metric_statistics call
    requested,           \* history: the cursors passed to the listing calls
    served,              \* history: the pages received, in order
    processed,           \* history: the items the for loops visited, in order
    log,                 \* history: the last LogWindow remote requests and
                         \* rate-limit steps
    calls,               \* history: the last CallWindow rate-limit steps
    sent,                \* history: times of the last CallWindow
                         \* get_metric_statistics requests
    nThrottle,           \* history: rate-limit steps so far
    nStatistics,         \* history: get_metric_statistics requests so far
    expired              \* history: a rate-limit step ran at or after
                         \* requestDateCounter

vars == <<sys_argv, pc, now, region, startTime, endTime, totalRequests,
          requestDateCounter, cloudwatch, namespace, queryType, attribute,
          metrics, idx, i, instanceId, request, requested, served, processed,
          log,
          calls, sent, nThrottle, nStatistics, expired>>

history == <<requested, served, processed, log, calls, sent, nThrottle,
             nStatistics, expired>>

----------------------------------------------------------------------------
(* Bounds of the model *)

MaxArgs == 3          \* CLI tokens after the script name
MaxTokenLen == 2      \* symbols per CLI token
TicksPerSecond == 1   \* clock resolution: ticks in a second
MaxLatency == 1       \* ticks a remote call may take
MaxOversleep == 0     \* ticks time.sleep may overshoot
MaxPages == 2         \* pages of one listing
MaxItems == 2         \* items of one page

(* Program constants *)

maxRequestsPerTimePeriod == 2
secondsToSleep == 1
DefaultLookback == 300

SleepTicks == secondsToSleep * TicksPerSecond

\* how far back the histories reach
LogWindow == 2
CallWindow == maxRequestsPerTimePeriod + 1

----------------------------------------------------------------------------
(* Values *)

None == "None"

\* self.region before __init__ assigns it
NoRegion == <<None>>

SeqsUpTo(S, n) == UNION {[1..k -> S] : k \in 0..n}

\* the symbols CLI tokens are made of: a digit and a letter
Chars == {"3", "u"}

DigitVal == ("0" :> 0) @@ ("1" :> 1) @@ ("2" :> 2) @@ ("3" :> 3) @@ ("4" :> 4)
            @@ ("5" :> 5) @@ ("6" :> 6) @@ ("7" :> 7) @@ ("8" :> 8) @@ ("9" :> 9)

Tokens == SeqsUpTo(Chars, MaxTokenLen)

ScriptName == <<"MetricGrabber.py">>

DefaultRegion == <<"us-east-1">>

\* str.isdigit(): non-empty and every character a digit
isdigit(s) == Len(s) > 0 /\ \A k \in 1..Len(s) : s[k] \in DOMAIN DigitVal

\* int(s) for a string of digits
RECURSIVE int(_)
int(s) == IF s = <<>> THEN 0
          ELSE 10 * int(SubSeq(s, 1, Len(s) - 1)) + DigitVal[s[Len(s)]]

\* datetime.timedelta(seconds=n), in ticks
timedelta(n) == n * TicksPerSecond

----------------------------------------------------------------------------
(* __init__: the parser for the passed arguments                           *)

\* sys.argv[k], zero-based as in the source
argv(a, k) == a[k + 1]

\* ParseArgs with the two-token branches reading the wrong positions
ParseArgsSwapped(a, t) ==
    IF Len(a) = 2 /\ isdigit(argv(a, 1))
    THEN [status |-> "ok", region |-> DefaultRegion,
          startTime |-> t - timedelta(int(argv(a, 1)))]
    ELSE IF Len(a) = 2 /\ ~isdigit(argv(a, 1))
    THEN [status |-> "ok", region |-> argv(a, 1),
          startTime |-> t - timedelta(DefaultLookback)]
    ELSE IF Len(a) = 3
    THEN IF isdigit(argv(a, 1))
         THEN [status |-> "ok", region |-> argv(a, 1),
               startTime |-> t - timedelta(int(argv(a, 1)))]
         ELSE IF isdigit(argv(a, 2))
         THEN [status |-> "ok", region |-> argv(a, 2),
               startTime |-> t - timedelta(int(argv(a, 2)))]
         ELSE [status |-> "ValueError", region |-> NoRegion, startTime |-> 0]
    ELSE [status |-> "ok", region |-> DefaultRegion,
          startTime |-> t - timedelta(DefaultLookback)]

\* ParseArgs with a last branch that takes the defaults only when no token
\* is given
ParseArgsStrict(a, t) ==
    IF Len(a) = 2 /\ isdigit(argv(a, 1))
    THEN [status |-> "ok", region |-> DefaultRegion,
          startTime |-> t - timedelta(int(argv(a, 1)))]
    ELSE IF Len(a) = 2 /\ ~isdigit(argv(a, 1))
    THEN [status |-> "ok", region |-> argv(a, 1),
          startTime |-> t - timedelta(DefaultLookback)]
    ELSE IF Len(a) = 3
    THEN IF isdigit(argv(a, 1))
         THEN [status |-> "ok", region |-> argv(a, 2),
               startTime |-> t - timedelta(int(argv(a, 1)))]
         ELSE IF isdigit(argv(a, 2))
         THEN [status |-> "ok", region |-> argv(a, 1),
               startTime |-> t - timedelta(int(argv(a, 2)))]
         ELSE [status |-> "ValueError", region |-> NoRegion, startTime |-> 0]
    ELSE IF Len(a) = 1
    THEN [status |-> "ok", region |-> DefaultRegion,
          startTime |-> t - timedelta(DefaultLookback)]
    ELSE [status |-> "InvalidArguments", region |-> NoRegion, startTime |-> 0]

\* Lines 42-57.  int() of a string that is not a number raises ValueError.
ParseArgs(a, t) ==
    IF Len(a) = 2 /\ isdigit(argv(a, 1))
    THEN [status |-> "ok", region |-> DefaultRegion,
          startTime |-> t - timedelta(int(argv(a, 1)))]
    ELSE IF Len(a) = 2 /\ ~isdigit(argv(a, 1))
    THEN [status |-> "ok", region |-> argv(a, 1),
          startTime |-> t - timedelta(DefaultLookback)]
    ELSE IF Len(a) = 3
    THEN IF isdigit(argv(a, 1))
         THEN [status |-> "ok", region |-> argv(a, 2),
               startTime |-> t - timedelta(int(argv(a, 1)))]
         ELSE IF isdigit(argv(a, 2))
         THEN [status |-> "ok", region |-> argv(a, 1),
               startTime |-> t - timedelta(int(argv(a, 2)))]
         ELSE [status |-> "ValueError", region |-> NoRegion, startTime |-> 0]
    ELSE [status |-> "ok", region |-> DefaultRegion,
          startTime |-> t - timedelta(DefaultLookback)]

\* __init__, lines 38-71
New ==
    /\ pc = "start"
    /\ LET r == ParseArgs(sys_argv, now) IN
         /\ endTime' = now
         /\ region' = r.region
         /\ startTime' = r.startTime
         /\ IF r.status = "ok"
            THEN /\ totalRequests' = 0
                 /\ requestDateCounter' = now + timedelta(secondsToSleep)
                 /\ cloudwatch' = <<r.region>>
                 /\ pc' = "ready"
            ELSE /\ pc' = r.status
                 /\ UNCHANGED <<totalRequests, requestDateCounter, cloudwatch>>
    /\ UNCHANGED <<sys_argv, now, namespace, queryType, attribute, metrics,
                   idx, i, instanceId, request>>
    /\ UNCHANGED history


----------------------------------------------------------------------------
(* What the remote service holds                                           *)

NetworkIn == <<"Network", "In">>
DiskReadOps == <<"Disk", "Read", "Ops">>

\* boto Metric objects: a name and a mapping dimension key -> list of values
Descriptors ==
    { [name |-> NetworkIn,   dimensions |-> [InstanceId |-> <<"i-123">>]],
      [name |-> DiskReadOps, dimensions |-> <<>>],
      [name |-> NetworkIn,   dimensions |-> [InstanceId |-> <<>>]] }

NoMetric == [name |-> <<>>, dimensions |-> <<>>]

Namespaces == {"AWS/EC2", "AlarmHistory"}
QueryTypes == {<<>>, <<"Network">>}
Attributes == {None, "InstanceId", "MetricName"}

\* A page the service may answer with once k pages have been served.  An
\* item is named by its page and its place in it; what a Metric holds is
\* drawn when the for loop reads it.  The cursor of a page names the page
\* that follows it; 0 stands for no cursor.
Pages(k) ==
    { [items |-> [j \in 1..n |-> <<k + 1, j>>], next_token |-> t] :
        n \in 0..MaxItems,
        t \in IF k + 1 < MaxPages THEN {0, k + 1} ELSE {0} }

NoPage == [items |-> <<>>, next_token |-> 0]

Latencies == 0..MaxLatency

\* a history of the last w entries
Keep(w, s, e) == IF Len(s) >= w THEN Append(Tail(s), e) ELSE Append(s, e)

----------------------------------------------------------------------------
(* grabMetrics: the filter of lines 145-157                                *)

\* dict.get(k): <<>> for None, else <<value>>
get(d, k) == IF k \in DOMAIN d THEN <<d[k]>> ELSE <<>>

\* truth value of an optional list
Truthy(opt) == opt # <<>> /\ opt[1] # <<>>

\* str(i) of a boto Metric
str(m) == <<"Metric:">> \o m.name

startswith(s, p) == Len(p) <= Len(s) /\ SubSeq(s, 1, Len(p)) = p

\* ResolveInstanceId without the test for zero dimensions
ResolveInstanceIdAnyTotal(attr, m) ==
    IF attr # None /\ Truthy(get(m.dimensions, attr))
    THEN get(m.dimensions, attr)
    ELSE IF attr = "MetricName"
    THEN << <<"Total">> >>
    ELSE <<>>

\* lines 145-150
ResolveInstanceId(attr, m) ==
    IF attr # None /\ Truthy(get(m.dimensions, attr))
    THEN get(m.dimensions, attr)
    ELSE IF attr = "MetricName" /\ Cardinality(DOMAIN m.dimensions) = 0
    THEN << <<"Total">> >>
    ELSE <<>>

\* lines 152-157: is printMetrics called for the item
CallsPrintMetrics(iid, qt, m) ==
    /\ Truthy(iid)
    /\ qt # <<>> => startswith(str(m), <<"Metric:">> \o qt)

\* PrintMetricsEntry without the rate limit
PrintMetricsEntryUnthrottled(iid) == IF iid # <<>> THEN "fetch" ELSE "loop"

\* line 101: where printMetrics goes on entry
PrintMetricsEntry(iid) == IF iid # <<>> THEN "throttle" ELSE "loop"

\* MustSleep with the limit off by one
MustSleepAtLimit(deadline, t, count) ==
    deadline > t /\ count >= maxRequestsPerTimePeriod

\* MustSleep without the test of the deadline
MustSleepNoDeadline(deadline, t, count) ==
    count > maxRequestsPerTimePeriod

\* line 106
MustSleep(deadline, t, count) ==
    deadline > t /\ count > maxRequestsPerTimePeriod

\* HasMore that never follows a cursor
HasMoreNever(page) == FALSE

\* lines 159 and 180
HasMore(page) == page.next_token # 0

----------------------------------------------------------------------------
(* connect, grabMetrics, printMetrics, grabAlarmHistory                    *)

\* connect (89-93) and the first list_metrics of grabMetrics (139)
ConnectMetrics ==
    /\ pc = "ready"
    /\ \E ns \in Namespaces \ {"AlarmHistory"}, qt \in QueryTypes,
          attr \in Attributes, page \in Pages(0), d \in Latencies :
         /\ namespace' = ns
         /\ queryType' = qt
         /\ attribute' = attr
         /\ now' = now + d
         /\ metrics' = page
         /\ served' = Append(served, page)
    /\ requested' = Append(requested, 0)
    /\ log' = Keep(LogWindow, log, "list_metrics")
    /\ idx' = 1
    /\ pc' = "loop"
    /\ UNCHANGED <<sys_argv, region, startTime, endTime, totalRequests,
                   requestDateCounter, cloudwatch, i, instanceId, request, processed,
                   calls, sent, nThrottle, nStatistics, expired>>

\* connect (89-95) and the first describe_alarm_history (168)
ConnectAlarms ==
    /\ pc = "ready"
    /\ \E qt \in QueryTypes, attr \in Attributes, page \in Pages(0),
          d \in Latencies :
         /\ namespace' = "AlarmHistory"
         /\ queryType' = qt
         /\ attribute' = attr
         /\ now' = now + d
         /\ metrics' = page
         /\ served' = Append(served, page)
    /\ requested' = Append(requested, 0)
    /\ log' = Keep(LogWindow, log, "describe_alarm_history")
    /\ idx' = 1
    /\ pc' = "alarms"
    /\ UNCHANGED <<sys_argv, region, startTime, endTime, totalRequests,
                   requestDateCounter, cloudwatch, i, instanceId, request, processed,
                   calls, sent, nThrottle, nStatistics, expired>>

\* one pass of the for loop over a page (143-157), up to the call of
\* printMetrics
LoopItem ==
    /\ pc = "loop"
    /\ idx <= Len(metrics.items)
    /\ \E m \in Descriptors :
         LET iid == ResolveInstanceId(attribute, m) IN
           /\ i' = m
           /\ instanceId' = iid
           /\ IF CallsPrintMetrics(iid, queryType, m)
                 /\ PrintMetricsEntry(iid) # "loop"
              THEN /\ pc' = PrintMetricsEntry(iid)
                   /\ idx' = idx
              ELSE /\ pc' = "loop"
                   /\ idx' = idx + 1
    /\ processed' = Append(processed, metrics.items[idx])
    /\ UNCHANGED <<sys_argv, now, region, startTime, endTime, totalRequests,
                   requestDateCounter, cloudwatch, namespace, queryType,
                   attribute, metrics, request, requested, served, log,
                   calls, sent, nThrottle, nStatistics, expired>>

\* printMetrics, lines 104-109: the self-imposed rate limit
Throttle ==
    /\ pc = "throttle"
    /\ LET count == totalRequests + 1 IN
         IF MustSleep(requestDateCounter, now, count)
         THEN /\ \E o \in 0..MaxOversleep : now' = now + SleepTicks + o
              /\ totalRequests' = 0
              /\ requestDateCounter' = now' + timedelta(secondsToSleep)
              /\ calls' = Keep(CallWindow, calls, [at |-> now, slept |-> TRUE])
         ELSE /\ now' = now
              /\ totalRequests' = count
              /\ requestDateCounter' = requestDateCounter
              /\ calls' = Keep(CallWindow, calls, [at |-> now, slept |-> FALSE])
    /\ log' = Keep(LogWindow, log, "throttle")
    /\ nThrottle' = nThrottle + 1
    /\ expired' = (expired \/ now >= requestDateCounter)
    /\ pc' = "fetch"
    /\ UNCHANGED <<sys_argv, region, startTime, endTime, cloudwatch, namespace,
                   queryType, attribute, metrics, idx, i, instanceId, request,
                   requested, served, processed, sent, nStatistics>>

\* line 111: str(i).partition(":")[2], the text after the first colon
metricName(m) == Tail(str(m))

\* printMetrics, lines 111-133: get_metric_statistics and the printing
GetStatistics ==
    /\ pc = "fetch"
    /\ request' = [period |-> 60, start |-> startTime, end |-> endTime,
                   metricName |-> metricName(i), namespace |-> namespace,
                   dimensions |-> IF attribute = "MetricName" THEN <<>>
                                  ELSE <<attribute, instanceId[1]>>]
    /\ \E d \in Latencies : now' = now + d
    /\ sent' = Keep(CallWindow, sent, now)
    /\ log' = Keep(LogWindow, log, "get_metric_statistics")
    /\ nStatistics' = nStatistics + 1
    /\ idx' = idx + 1
    /\ pc' = "loop"
    /\ UNCHANGED <<sys_argv, region, startTime, endTime, totalRequests,
                   requestDateCounter, cloudwatch, namespace, queryType,
                   attribute, metrics, i, instanceId, requested, served,
                   processed, calls, nThrottle, expired>>

\* grabMetrics, lines 159-160: the page is exhausted and carries a cursor
ListNext ==
    /\ pc = "loop"
    /\ idx > Len(metrics.items)
    /\ HasMore(metrics)
    /\ \E page \in Pages(Len(served)), d \in Latencies :
         /\ now' = now + d
         /\ metrics' = page
         /\ served' = Append(served, page)
    /\ requested' = Append(requested, metrics.next_token)
    /\ log' = Keep(LogWindow, log, "list_metrics")
    /\ idx' = 1
    /\ UNCHANGED <<sys_argv, pc, region, startTime, endTime, totalRequests,
                   requestDateCounter, cloudwatch, namespace, queryType,
                   attribute, i, instanceId, request, processed, calls, sent,
                   nThrottle, nStatistics, expired>>

\* grabMetrics, lines 161-162: break
ListDone ==
    /\ pc = "loop"
    /\ idx > Len(metrics.items)
    /\ ~HasMore(metrics)
    /\ pc' = "done"
    /\ UNCHANGED <<sys_argv, now, region, startTime, endTime, totalRequests,
                   requestDateCounter, cloudwatch, namespace, queryType,
                   attribute, metrics, idx, i, instanceId, request>>
    /\ UNCHANGED history

\* grabAlarmHistory, lines 172-181: print the page, then ask for the next
AlarmsNext ==
    /\ pc = "alarms"
    /\ HasMore(metrics)
    /\ \E page \in Pages(Len(served)), d \in Latencies :
         /\ now' = now + d
         /\ metrics' = page
         /\ served' = Append(served, page)
    /\ processed' = processed \o metrics.items
    /\ requested' = Append(requested, metrics.next_token)
    /\ log' = Keep(LogWindow, log, "describe_alarm_history")
    /\ UNCHANGED <<sys_argv, pc, region, startTime, endTime, totalRequests,
                   requestDateCounter, cloudwatch, namespace, queryType,
                   attribute, idx, i, instanceId, request, calls, sent, nThrottle,
                   nStatistics, expired>>

\* grabAlarmHistory, lines 172-183: print the last page, then break
AlarmsDone ==
    /\ pc = "alarms"
    /\ ~HasMore(metrics)
    /\ processed' = processed \o metrics.items
    /\ pc' = "done"
    /\ UNCHANGED <<sys_argv, now, region, startTime, endTime, totalRequests,
                   requestDateCounter, cloudwatch, namespace, queryType,
                   attribute, metrics, idx, i, instanceId, request, requested, served,
                   log, calls, sent, nThrottle, nStatistics, expired>>

----------------------------------------------------------------------------

TypeInit ==
    /\ pc = "start"
    /\ now = 0
    /\ region = NoRegion
    /\ startTime = 0
    /\ endTime = 0
    /\ totalRequests = 0
    /\ requestDateCounter = 0
    /\ cloudwatch = <<>>
    /\ namespace = None
    /\ queryType = <<>>
    /\ attribute = None
    /\ metrics = NoPage
    /\ idx = 0
    /\ i = NoMetric
    /\ instanceId = <<>>
    /\ request = <<>>
    /\ requested = <<>>
    /\ served = <<>>
    /\ processed = <<>>
    /\ log = <<>>
    /\ calls = <<>>
    /\ sent = <<>>
    /\ nThrottle = 0
    /\ nStatistics = 0
    /\ expired = FALSE

\* every command line of at most MaxArgs tokens
InitArgs ==
    /\ sys_argv \in {ScriptName \o a : a \in SeqsUpTo(Tokens, MaxArgs)}
    /\ TypeInit

SpecArgs == InitArgs /\ [][New]_vars

\* the command line of the runs that are followed to their end
Init ==
    /\ sys_argv = ScriptName \o << <<"u">>, <<"3", "3">> >>
    /\ TypeInit

Next ==
    \/ New
    \/ ConnectMetrics
    \/ ConnectAlarms
    \/ LoopItem
    \/ Throttle
    \/ GetStatistics
    \/ ListNext
    \/ ListDone
    \/ AlarmsNext
    \/ AlarmsDone

Spec == Init /\ [][Next]_vars

\* the thread is never suspended for ever: a step that can be taken is taken
FairSpec == Spec /\ WF_vars(Next)

----------------------------------------------------------------------------
(* Properties                                                              *)

RECURSIVE Flatten(_)
\* the items of a sequence of pages, in page order
Flatten(pages) ==
    IF pages = <<>> THEN <<>>
    ELSE pages[1].items \o Flatten(Tail(pages))

\* the items of the page in hand that the for loop has entered
Entered == IF pc = "loop" THEN idx - 1 ELSE idx

InMetrics == pc \in {"loop", "throttle", "fetch"}

\* C1, the state part: the k-th listing call passes the cursor of the page
\* before it, no cursor is passed twice, only the last page received lacks a
\* cursor, the items visited are those of the pages received, each once and
\* in page order, and the loop ends only on a page without a cursor.
ListedInOrder ==
    (namespace # "AlarmHistory" /\ pc \in {"loop", "throttle", "fetch", "done"}) =>
        /\ Len(requested) = Len(served)
        /\ requested[1] = 0
        /\ \A k \in 2..Len(requested) : requested[k] = served[k - 1].next_token
        /\ \A j, k \in 1..Len(requested) : j # k => requested[j] # requested[k]
        /\ \A k \in 1..(Len(served) - 1) : served[k].next_token # 0
        /\ metrics = served[Len(served)]
        /\ InMetrics =>
             processed = Flatten(SubSeq(served, 1, Len(served) - 1))
                         \o SubSeq(metrics.items, 1, Entered)
        /\ pc = "done" =>
             /\ processed = Flatten(served)
             /\ served[Len(served)].next_token = 0

\* how much of a listing is left at most: pages not yet asked for, items of
\* the page in hand not yet finished, steps left for the item in hand
Remaining ==
    IF pc = "done" THEN 0
    ELSE (MaxPages - Len(served)) * (3 * MaxItems + 6)
         + 3 * (Len(metrics.items) + 1 - idx)
         + (CASE pc = "loop" -> 2 [] pc = "throttle" -> 1 [] OTHER -> 0)
         + 1

\* C1, termination: the listing can always take a step until it is done,
\* at the end of a page without a cursor that step is the end of the loop
\* and not another request, and every step leaves less to do.
ListingStep ==
    (namespace' # "AlarmHistory" /\ InMetrics) => Remaining' < Remaining

CanStep ==
    (namespace # "AlarmHistory" /\ InMetrics) =>
        /\ ENABLED Next
        /\ (pc = "loop" /\ idx > Len(metrics.items) /\ metrics.next_token = 0)
             => (ENABLED ListDone /\ ~ENABLED ListNext)

\* C1: metric listing requests each page once with the cursor of the page
\* before it, visits the items of all pages once each in page order, and
\* terminates after the first page without a cursor, whatever fetches and
\* sleeps come in between.
C1_Pagination == [](ListedInOrder /\ CanStep) /\ [][ListingStep]_vars

\* the same termination, as a liveness property of FairSpec
ListingTerminates == (pc = "loop") ~> (pc = "done")

\* a two-page listing that slept on the way has ended
C1_Witness ==
    /\ pc = "done"
    /\ namespace # "AlarmHistory"
    /\ Len(served) = 2
    /\ Len(processed) = 4
    /\ \E k \in 1..Len(calls) : calls[k].slept

\* C2: whenever maxRequestsPerTimePeriod + 1 consecutive rate-limit steps
\* start within less than secondsToSleep of each other, at least one of them
\* sleeps.
C2_BurstSleeps ==
    (Len(calls) = maxRequestsPerTimePeriod + 1
     /\ calls[Len(calls)].at - calls[1].at < timedelta(secondsToSleep))
        => \E k \in 1..Len(calls) : calls[k].slept

\* C3: no interval of length secondsToSleep holds more than
\* maxRequestsPerTimePeriod get_metric_statistics requests.
C3_RateCap ==
    Len(sent) = maxRequestsPerTimePeriod + 1
        => sent[Len(sent)] - sent[1] >= timedelta(secondsToSleep)

\* what the contract calls a numeric token, and its value
Numeric(tok) == tok # <<>> /\ \A k \in 1..Len(tok) : tok[k] \in {"3"}
Value(tok) == IF Len(tok) = 1 THEN 3 ELSE IF Len(tok) = 2 THEN 33 ELSE 333

CliTokens == Tail(sys_argv)

ValidTokens ==
    \/ Len(CliTokens) <= 1
    \/ Len(CliTokens) = 2 /\ Numeric(CliTokens[1]) # Numeric(CliTokens[2])

\* C4: for every valid command line the region is the non-numeric token if
\* there is one and "us-east-1" otherwise, the window ends now and starts N
\* seconds before if a numeric token N is given and 300 seconds before
\* otherwise, and start <= end.
C4_Resolved ==
    (pc # "start" /\ ValidTokens) =>
        /\ pc = "ready"
        /\ endTime = now
        /\ startTime <= endTime
        /\ \A k \in 1..Len(CliTokens) :
             /\ ~Numeric(CliTokens[k]) => region = CliTokens[k]
             /\ Numeric(CliTokens[k]) =>
                  startTime = endTime - Value(CliTokens[k]) * TicksPerSecond
        /\ (\A k \in 1..Len(CliTokens) : Numeric(CliTokens[k]))
              => region = <<"us-east-1">>
        /\ (\A k \in 1..Len(CliTokens) : ~Numeric(CliTokens[k]))
              => startTime = endTime - 300 * TicksPerSecond

\* a region and a look-back given in this order have been resolved
C4_Witness ==
    /\ pc = "ready"
    /\ CliTokens = << <<"u", "3">>, <<"3", "3">> >>
    /\ region = <<"u", "3">>
    /\ startTime = endTime - 33 * TicksPerSecond

\* C5 as stated: with three or more tokens the resolution fails, nothing is
\* resolved and no connection is opened.
C5_ArityFails ==
    (pc # "start" /\ Len(CliTokens) >= 3) =>
        /\ pc # "ready"
        /\ region = NoRegion
        /\ cloudwatch = <<>>

\* C5 as the code has it: with three or more tokens the resolution does not
\* fail; the tokens are ignored, the region is "us-east-1", the window is
\* the last 300 seconds, and the connection to that region is opened.
C5_ArityDefaults ==
    (pc # "start" /\ Len(CliTokens) >= 3) =>
        /\ pc = "ready"
        /\ region = <<"us-east-1">>
        /\ endTime = now
        /\ startTime = endTime - 300 * TicksPerSecond
        /\ cloudwatch = << <<"us-east-1">> >>

\* three tokens, a region and a look-back among them, have been resolved
C5_Witness ==
    /\ pc = "ready"
    /\ CliTokens = << <<"u">>, <<"3">>, <<"u", "u">> >>
    /\ cloudwatch # <<>>

\* C6: printMetrics is entered for a descriptor only if it has a non-empty
\* value for the configured dimension key, or the key is "MetricName" and
\* the descriptor has no dimensions.
C6_Filter ==
    pc \in {"throttle", "fetch"} =>
        \/ /\ attribute # None
           /\ attribute \in DOMAIN i.dimensions
           /\ i.dimensions[attribute] # <<>>
        \/ /\ attribute = "MetricName"
           /\ DOMAIN i.dimensions = {}

\* a descriptor without dimensions is fetched as the "Total" series
C6_Witness ==
    /\ pc = "fetch"
    /\ attribute = "MetricName"
    /\ DOMAIN i.dimensions = {}

\* C7: a rate-limit step adds one to totalRequests; if and only if the
\* clock is before requestDateCounter and the new count exceeds
\* maxRequestsPerTimePeriod it blocks for secondsToSleep, sets the count to
\* 0 and requestDateCounter to the time after the sleep plus secondsToSleep;
\* otherwise it does not block and leaves requestDateCounter alone.
C7_ThrottleStep ==
    [][pc = "throttle" =>
         IF now < requestDateCounter /\ totalRequests + 1 > 2
         THEN /\ now' >= now + 1 * TicksPerSecond
              /\ totalRequests' = 0
              /\ requestDateCounter' = now' + 1 * TicksPerSecond
         ELSE /\ now' = now
              /\ totalRequests' = totalRequests + 1
              /\ requestDateCounter' = requestDateCounter]_vars

\* a rate-limit step has slept and reset the limiter
C7_Witness ==
    /\ pc = "fetch"
    /\ calls[Len(calls)].slept
    /\ totalRequests = 0
    /\ requestDateCounter = now + timedelta(secondsToSleep)

\* C8: a rate-limit step that runs at or after requestDateCounter starts a
\* new window: totalRequests goes back to 0 (or 1, counting the step) and
\* requestDateCounter moves into the future.
C8_WindowReset ==
    [][(pc = "throttle" /\ now >= requestDateCounter) =>
         (totalRequests' <= 1 /\ requestDateCounter' > now')]_vars

\* C9: every get_metric_statistics request comes right after exactly one
\* rate-limit step, no rate-limit step runs for a listing or alarm-history
\* request, and the rate-limit steps number the requests issued or about to
\* be issued.
C9_ThrottleThenFetch ==
    /\ nThrottle = nStatistics + (IF pc = "fetch" THEN 1 ELSE 0)
    /\ \A k \in 2..Len(log) :
         /\ log[k] = "get_metric_statistics" => log[k - 1] = "throttle"
         /\ log[k - 1] = "throttle" => log[k] = "get_metric_statistics"
    /\ (log # <<>> /\ log[Len(log)] = "throttle") <=> pc = "fetch"
    /\ namespace = "AlarmHistory" => nThrottle = 0 /\ nStatistics = 0

\* a request has followed its rate-limit step and the next step has run
C9_Witness ==
    /\ pc = "fetch"
    /\ nThrottle = 3
    /\ nStatistics = 2

====
